---- MODULE Spec2Model ----
(***************************************************************************)
(* Route discovery pipeline of mcp_Demo: extraction of route candidates    *)
(* from script sources (extract_routes.py), canonicalization of the        *)
(* candidates into one inventory (save_routes_to_file), and concurrent     *)
(* probing and clustering of the inventory (test_routes.py), and the       *)
(* recursive download of the scripts of a page (getjs.py).                 *)
(*                                                                         *)
(* Python strings are sequences of one-character strings, so that          *)
(* splitting, joining, sorting and matching are computed, not assumed.     *)
(* An optional value (a dict key that may be absent, a match group that    *)
(* may be None) is <<>> when absent and <<v>> when present.                *)
(***************************************************************************)
EXTENDS Integers, Sequences, FiniteSets, TLC

VARIABLES
  \* normalize_path applied to a path, and again to its result
  norig, nonce, ntwice, ncalls,
  \* save_routes_to_file: the candidate dicts of `routes` met so far (the loop
  \* mutates them in place), the same candidates as they were passed in, the
  \* dict unique_routes (each value is a reference to one of the candidate
  \* dicts, held as its index in cands), the sorted list that is dumped, and
  \* the position in the function
  cands, fed, unique_routes, final_routes, cpc,
  \* extract_with_patterns on one match: the match, what handling it gave
  \* (the routes list, the filter's verdict, an exception), and the position
  fmatch, fout, fpc,
  \* process_js_files: the files the loop has gone through (each as it was
  \* found: readable or not, and the matches a scan of it yields), the dict
  \* all_routes, and the position in the function
  efiles, all_routes, epc,
  \* test_routes.py, main: the base URL, the set all_paths, the future of each
  \* submitted test_route call, the list results, the position of main, and
  \* what analyze_results returned
  base_url, all_paths, task, results, mpc, unique_pages, non_404_pages,
  \* main and its worker pool: the routes loaded from the routes file, the
  \* futures in the order they were submitted (future_to_path), the pool's
  \* queue of work items no worker has taken yet, and the position of main
  routes_data, future_to_path, work_queue, ppc,
  \* getjs.py, get_js_files: the scripts of the page (js_urls), the text of
  \* each script as the server gives it (the URLs it refers to), the
  \* parameters max_depth and retry, the set downloaded_urls, the holder of
  \* url_lock, every call of download_js_recursive made so far, the list
  \* all_downloaded, and the position of get_js_files
  js_urls, content, max_depth, retry, downloaded_urls, url_lock, calls,
  all_downloaded, gpc

varsNorm  == <<norig, nonce, ntwice, ncalls>>
varsCanon == <<cands, fed, unique_routes, final_routes, cpc>>
varsFilter == <<fmatch, fout, fpc>>
varsExtract == <<efiles, all_routes, epc>>
varsProbe == <<base_url, all_paths, task, results, mpc, unique_pages, non_404_pages>>
varsPool == <<routes_data, future_to_path, work_queue, ppc>>
varsGet == <<js_urls, content, max_depth, retry, downloaded_urls, url_lock, calls,
             all_downloaded, gpc>>
vars == <<norig, nonce, ntwice, ncalls, cands, fed, unique_routes, final_routes, cpc,
          fmatch, fout, fpc, efiles, all_routes, epc,
          base_url, all_paths, task, results, mpc, unique_pages, non_404_pages,
          routes_data, future_to_path, work_queue, ppc,
          js_urls, content, max_depth, retry, downloaded_urls, url_lock, calls,
          all_downloaded, gpc>>

\* what a step of one part of the pipeline leaves alone
OnlyNorm    == UNCHANGED <<varsCanon, varsFilter, varsExtract, varsProbe, varsPool, varsGet>>
OnlyCanon   == UNCHANGED <<varsNorm, varsFilter, varsExtract, varsProbe, varsPool, varsGet>>
OnlyFilter  == UNCHANGED <<varsNorm, varsCanon, varsExtract, varsProbe, varsPool, varsGet>>
OnlyExtract == UNCHANGED <<varsNorm, varsCanon, varsFilter, varsProbe, varsPool, varsGet>>
OnlyProbe   == UNCHANGED <<varsNorm, varsCanon, varsFilter, varsExtract, varsPool, varsGet>>
OnlyPool    == UNCHANGED <<varsNorm, varsCanon, varsFilter, varsExtract, varsGet,
                           base_url, task, results, mpc, unique_pages, non_404_pages>>
OnlyGet     == UNCHANGED <<varsNorm, varsCanon, varsFilter, varsExtract, varsProbe, varsPool>>

---------------------------------------------------------------------------
(* Strings *)

\* The characters the model uses, in code point order (Python compares
\* strings by code point).
CharOrder ==
  << " ", ",", "-", ".", "/",
     "0", "1", "2", "3", "4", "5", "6", "7", "8", "9",
     ":", "?",
     "A", "B", "C", "D", "E", "F", "G", "H", "I", "J", "K", "L", "M",
     "N", "O", "P", "Q", "R", "S", "T", "U", "V", "W", "X", "Y", "Z",
     "[", "\\", "]", "_",
     "a", "b", "c", "d", "e", "f", "g", "h", "i", "j", "k", "l", "m",
     "n", "o", "p", "q", "r", "s", "t", "u", "v", "w", "x", "y", "z" >>

OrdOf == [c \in {CharOrder[i] : i \in 1..Len(CharOrder)} |->
            CHOOSE i \in 1..Len(CharOrder) : CharOrder[i] = c]

\* ord(c), as the rank of c among the characters of the model
Ord(c) == OrdOf[c]

\* a < b for Python strings
RECURSIVE StrLess(_, _)
StrLess(a, b) ==
  IF b = <<>> THEN FALSE
  ELSE IF a = <<>> THEN TRUE
  ELSE IF Head(a) = Head(b) THEN StrLess(Tail(a), Tail(b))
  ELSE Ord(Head(a)) < Ord(Head(b))

\* sorted(S) for a set of strings
RECURSIVE SortedStrs(_)
SortedStrs(S) ==
  IF S = {} THEN <<>>
  ELSE LET m == CHOOSE x \in S : \A y \in S \ {x} : StrLess(x, y)
       IN  <<m>> \o SortedStrs(S \ {m})

StartsWith(s, pre) ==
  Len(s) >= Len(pre) /\ SubSeq(s, 1, Len(pre)) = pre

EndsWith(s, suf) ==
  Len(s) >= Len(suf) /\ SubSeq(s, Len(s) - Len(suf) + 1, Len(s)) = suf

\* s.split(sep): the pieces between the non-overlapping occurrences of sep,
\* found left to right
RECURSIVE Split(_, _)
Split(s, sep) ==
  LET hits == {i \in 1..(Len(s) - Len(sep) + 1) : SubSeq(s, i, i + Len(sep) - 1) = sep}
  IN  IF hits = {} THEN <<s>>
      ELSE LET i == CHOOSE h \in hits : \A g \in hits : h <= g
           IN  <<SubSeq(s, 1, i - 1)>> \o Split(SubSeq(s, i + Len(sep), Len(s)), sep)

\* sep.join(parts)
RECURSIVE Join(_, _)
Join(parts, sep) ==
  IF parts = <<>> THEN <<>>
  ELSE IF Len(parts) = 1 THEN parts[1]
  ELSE parts[1] \o sep \o Join(Tail(parts), sep)

\* s.rstrip(ch)
RECURSIVE RStrip(_, _)
RStrip(s, ch) ==
  IF s # <<>> /\ s[Len(s)] = ch THEN RStrip(SubSeq(s, 1, Len(s) - 1), ch) ELSE s

\* s.lstrip(ch)
RECURSIVE LStrip(_, _)
LStrip(s, ch) ==
  IF s # <<>> /\ Head(s) = ch THEN LStrip(Tail(s), ch) ELSE s

Range(f) == {f[i] : i \in DOMAIN f}

\* every sequence over S of length at most n
RECURSIVE SeqsUpTo(_, _)
SeqsUpTo(S, n) ==
  IF n = 0 THEN {<<>>}
  ELSE LET shorter == SeqsUpTo(S, n - 1)
       IN  shorter \cup {Append(s, x) : s \in {t \in shorter : Len(t) = n - 1}, x \in S}

---------------------------------------------------------------------------
(* Canonicalizer: extract_routes.py, save_routes_to_file *)

\* re.sub(r'/+', '/', path)
RECURSIVE CollapseSlashes(_)
CollapseSlashes(s) ==
  IF s = <<>> THEN <<>>
  ELSE IF Head(s) = "/" /\ Len(s) > 1 /\ s[2] = "/" THEN CollapseSlashes(Tail(s))
  ELSE <<Head(s)>> \o CollapseSlashes(Tail(s))

\* the trailing separator is stripped without collapsing the runs first
normalize_path_no_collapse(path) ==
  IF Len(path) > 1 /\ path[Len(path)] = "/"
  THEN SubSeq(path, 1, Len(path) - 1)
  ELSE path

normalize_path(path) ==
  LET p == CollapseSlashes(path)
  IN  IF Len(p) > 1 /\ p[Len(p)] = "/" THEN RStrip(p, "/") ELSE p

\* Bound on the length of the paths given to normalize_path
MaxPathLen == 5

NormAlphabet == {"/", "a", "."}

NormIdle == norig = <<>> /\ nonce = <<>> /\ ntwice = <<>> /\ ncalls = 0

NormInit ==
  /\ norig \in SeqsUpTo(NormAlphabet, MaxPathLen)
  /\ nonce = <<>>
  /\ ntwice = <<>>
  /\ ncalls = 0

\* path = normalize_path(route['path'])
NormalizeOnce ==
  /\ ncalls = 0
  /\ nonce' = normalize_path(norig)
  /\ ncalls' = 1
  /\ UNCHANGED <<norig, ntwice>>
  /\ OnlyNorm

\* normalize_path applied to a path that normalize_path returned
NormalizeAgain ==
  /\ ncalls = 1
  /\ ntwice' = normalize_path(nonce)
  /\ ncalls' = 2
  /\ UNCHANGED <<norig, nonce>>
  /\ OnlyNorm

\* Bound on the number of candidates one call of save_routes_to_file merges
MaxCands == 3

NoName == <<>>

\* The raw paths, names and source files of the candidates. "a, b" is a
\* file whose relative path holds a comma and a space.
CanonPaths ==
  { <<"/", "a", "/", "/", "b", "/">>, <<"/", "a", "/", "b">>,
    <<"/", "c", "/">>, <<"/", "c">>, <<"/", "/">> }
CanonNames == { NoName, <<"">>, <<"X">>, <<"Y">> }
CanonSources == { <<"a">>, <<"b">>, <<"a", ",", " ", "b">> }

\* the dict extract_with_patterns appends: 'name' is absent for a 1-capture rule
Candidate(type, name, path, source_file) ==
  [type |-> type, name |-> name, path |-> path, source_file |-> source_file]

\* the candidates of a run: named and unnamed ones of one source for two
\* spellings of a path, and unnamed ones of every source for every path
CandidatePool ==
  {Candidate("Vue", n, p, <<"a">>) :
     n \in CanonNames, p \in { <<"/", "a", "/", "/", "b", "/">>, <<"/", "a", "/", "b">> }}
    \cup {Candidate("General", NoName, p, f) : p \in CanonPaths, f \in CanonSources}

CanonIdle ==
  /\ cands = <<>>
  /\ fed = <<>>
  /\ unique_routes = <<>>
  /\ final_routes = <<>>
  /\ cpc = "idle"

CanonInit ==
  /\ cands = <<>>
  /\ fed = <<>>
  /\ unique_routes = <<>>
  /\ final_routes = <<>>
  /\ cpc = "merging"

\* existing_sources.add(new_source); ', '.join(sorted(existing_sources))
MergedSources(existing, new_source) ==
  LET existing_sources == Range(Split(existing, <<",", " ">>))
  IN  IF new_source \notin existing_sources
      THEN Join(SortedStrs(existing_sources \cup {new_source}), <<",", " ">>)
      ELSE existing

\* the name of the later candidate always replaces the record's
MergedName_last_wins(existing, route) ==
  IF route.name # NoName THEN route.name ELSE existing.name

\* 'name' in route and ('name' not in existing or not existing['name'])
MergedName(existing, route) ==
  IF route.name # NoName /\ (existing.name = NoName \/ existing.name = <<"">>)
  THEN route.name
  ELSE existing.name

\* the raw path is the key: the candidate is not normalized
MergeRoute_raw_key(route) ==
  LET i == Len(cands) + 1
  IN  /\ cands' = Append(cands, route)
      /\ unique_routes' = IF route.path \in DOMAIN unique_routes
                            THEN unique_routes
                            ELSE unique_routes @@ (route.path :> i)

\* One iteration of the loop over the candidates (lines 140-156): route is
\* the next dict of routes.values(), the i-th one met.
MergeRoute(route) ==
  LET i    == Len(cands) + 1
      path == normalize_path(route.path)
      r    == [route EXCEPT !.path = path]
  IN  IF path \notin DOMAIN unique_routes
      THEN /\ cands' = Append(cands, r)
           /\ unique_routes' = unique_routes @@ (path :> i)
      ELSE LET k        == unique_routes[path]
               existing == cands[k]
               merged   == [existing EXCEPT
                              !.source_file = MergedSources(existing.source_file, r.source_file),
                              !.name = MergedName(existing, r)]
           IN  /\ cands' = Append([cands EXCEPT ![k] = merged], r)
               /\ unique_routes' = unique_routes

Merge ==
  /\ cpc = "merging"
  /\ Len(cands) < MaxCands
  /\ \E route \in CandidatePool :
       /\ MergeRoute(route)
       /\ fed' = Append(fed, route)
  /\ UNCHANGED <<final_routes, cpc>>
  /\ OnlyCanon

\* sorted(unique_routes.values(), key=lambda x: x['path'])
SortedByPath(records) ==
  LET paths == SortedStrs({r.path : r \in records})
  IN  [i \in 1..Len(paths) |-> CHOOSE r \in records : r.path = paths[i]]

\* The loop is over: the records are sorted by path and dumped (lines 159-163)
Save ==
  /\ cpc = "merging"
  /\ final_routes' = SortedByPath({cands[unique_routes[p]] : p \in DOMAIN unique_routes})
  /\ cpc' = "saved"
  /\ UNCHANGED <<cands, fed, unique_routes>>
  /\ OnlyCanon

---------------------------------------------------------------------------
(* Extractor: extract_routes.py, extract_routes_from_js *)

IsUpper(c) == Ord(c) >= Ord("A") /\ Ord(c) <= Ord("Z")
IsAlnum(c) ==
  \/ Ord(c) >= Ord("0") /\ Ord(c) <= Ord("9")
  \/ Ord(c) >= Ord("A") /\ Ord(c) <= Ord("Z")
  \/ Ord(c) >= Ord("a") /\ Ord(c) <= Ord("z")
\* \w
IsWord(c) == IsAlnum(c) \/ c = "_"

\* s.lower()
Lower(s) ==
  [i \in 1..Len(s) |->
     IF IsUpper(s[i]) THEN CharOrder[Ord(s[i]) + (Ord("a") - Ord("A"))] ELSE s[i]]

\* s.replace(old, new) for one-character old and new
ReplaceChar(s, old, new) == [i \in 1..Len(s) |-> IF s[i] = old THEN new ELSE s[i]]

invalid_paths == { <<"/">>, <<"/", "/">>, <<".">>, <<".", "/">> }

static_extensions == {
    <<".", "p", "n", "g">>, <<".", "j", "p", "g">>, <<".", "j", "p", "e", "g">>,
    <<".", "g", "i", "f">>, <<".", "s", "v", "g">>, <<".", "i", "c", "o">>,
    <<".", "w", "e", "b", "p">>, <<".", "c", "s", "s">>, <<".", "s", "c", "s", "s">>,
    <<".", "l", "e", "s", "s">>, <<".", "j", "s">>, <<".", "j", "s", "x">>,
    <<".", "t", "s">>, <<".", "t", "s", "x">>, <<".", "w", "o", "f", "f">>,
    <<".", "w", "o", "f", "f", "2">>, <<".", "t", "t", "f">>, <<".", "e", "o", "t">>,
    <<".", "o", "t", "f">>, <<".", "m", "p", "3">>, <<".", "m", "p", "4">>,
    <<".", "a", "v", "i">>, <<".", "m", "o", "v">>, <<".", "f", "l", "v">>,
    <<".", "w", "m", "v">> }

\* the shortest and the longest extension the file-name pattern takes
ExtMin == 2
ExtMax == 6

\* s holds, at d, a dot followed by an extension of ExtMin..ExtMax
\* alphanumerics that ends the string or is followed by '?': the tail
\* \.[a-zA-Z0-9]{2,6}(?:\?.*)?$ of the file-name pattern
ExtensionAt(s, d) ==
  /\ s[d] = "."
  /\ \E n \in ExtMin..ExtMax :
       /\ d + n <= Len(s)
       /\ \A k \in (d + 1)..(d + n) : IsAlnum(s[k])
       /\ (d + n = Len(s) \/ s[d + n + 1] = "?")

\* re.search(r'/[^/]+\.[a-zA-Z0-9]{2,6}(?:\?.*)?$', route_path)
FileNamePattern(s) ==
  \E i \in 1..Len(s) : \E d \in (i + 2)..Len(s) :
    /\ s[i] = "/"
    /\ \A k \in (i + 1)..(d - 1) : s[k] # "/"
    /\ ExtensionAt(s, d)

\* is_valid_route of a string (lines 44-73)
is_valid_route(route_path) ==
  /\ route_path \notin invalid_paths
  /\ ~(\A i \in 1..Len(route_path) : route_path[i] \in {".", "/", "\\"})
  /\ \A ext \in static_extensions : ~EndsWith(Lower(route_path), ext)
  /\ ~FileNamePattern(route_path)

schemes ==
  { <<"h", "t", "t", "p", ":", "/", "/">>, <<"h", "t", "t", "p", "s", ":", "/", "/">>,
    <<"w", "s", ":", "/", "/">>, <<"w", "s", "s", ":", "/", "/">> }

\* route_path.startswith(('http://', 'https://', 'ws://', 'wss://'))
StartsWithScheme(s) == \E sch \in schemes : StartsWith(s, sch)

\* The pattern catalog in the order extract_routes_from_js applies it: the
\* route type, the number of groups, and what the group of the path can hold.
PatternCatalog ==
  << [type |-> "Vue",     groups |-> 1, shape |-> "any"],
     [type |-> "Vue",     groups |-> 2, shape |-> "any"],
     [type |-> "Vue",     groups |-> 1, shape |-> "dynamic"],
     [type |-> "React",   groups |-> 1, shape |-> "any"],
     [type |-> "React",   groups |-> 1, shape |-> "any"],
     [type |-> "React",   groups |-> 1, shape |-> "any"],
     [type |-> "General", groups |-> 1, shape |-> "slash"],
     [type |-> "General", groups |-> 1, shape |-> "slash_or_http"],
     [type |-> "General", groups |-> 1, shape |-> "bare"] >>

\* what the path group of a rule can capture
Captures(shape, s) ==
  CASE shape = "any" -> TRUE
    [] shape = "dynamic" ->
         \E i \in 1..(Len(s) - 2) : s[i] = "/" /\ s[i + 1] = ":" /\ IsWord(s[i + 2])
    [] shape = "slash" -> StartsWith(s, <<"/">>)
    [] shape = "slash_or_http" ->
         \/ StartsWith(s, <<"/">>)
         \/ StartsWith(s, <<"h", "t", "t", "p", ":", "/", "/">>)
         \/ StartsWith(s, <<"h", "t", "t", "p", "s", ":", "/", "/">>)
    [] shape = "bare" ->
         /\ Len(s) >= 2
         /\ s[1] = "/"
         /\ \A i \in 2..Len(s) : IsWord(s[i]) \/ s[i] \in {"-", ".", "/"}

\* A match of rule number `rule`: group 1 and group 2 as optional values
\* (<<>> is None). A 1-group rule has the path in group 1; the 2-group rule
\* has the name in group 1 and the path in group 2.
Match(rule, g1, g2) == [rule |-> rule, g1 |-> g1, g2 |-> g2]

None == <<>>

\* The outcome of handling one match: the routes list after it, whether the
\* filter was called and what it returned, and whether an exception left
\* extract_with_patterns.
Handled(routes, called, valid, raised) ==
  [routes |-> routes, called |-> called, valid |-> valid, raised |-> raised]

\* The body of the loop over the matches (lines 82-98). is_valid_route(None)
\* raises TypeError (all() iterates its argument); in the 1-group branch a
\* None or empty path is skipped before the filter is called.
HandleMatch(routes, source_file, m) ==
  LET rule == PatternCatalog[m.rule]
  IN  IF rule.groups > 1
      THEN IF m.g2 = None
           THEN Handled(routes, TRUE, FALSE, TRUE)
           ELSE LET ok == is_valid_route(m.g2[1])
                IN  Handled(IF ok
                            THEN Append(routes, Candidate(rule.type, m.g1, m.g2[1], source_file))
                            ELSE routes,
                            TRUE, ok, FALSE)
      ELSE IF m.g1 # None /\ m.g1[1] # <<>> /\ ~StartsWithScheme(m.g1[1])
           THEN LET ok == is_valid_route(m.g1[1])
                IN  Handled(IF ok
                            THEN Append(routes, Candidate(rule.type, NoName, m.g1[1], source_file))
                            ELSE routes,
                            TRUE, ok, FALSE)
           ELSE Handled(routes, FALSE, FALSE, FALSE)

\* Bound on the number of tokens a path of the filter's inputs is made of
MaxTokens == 4

\* The paths are the concatenations of up to MaxTokens of these tokens
PathTokens ==
  { <<"/">>, <<".">>, <<"a">>, <<"/", "a">>, <<"b", "c">>,
    <<"d", "e", "f", "g", "h", "i">>, <<"?">>,
    <<"h", "t", "t", "p", ":", "/", "/">> }

\* the paths the filter's contract names, a path of separators and dots
\* only, and an upper-case asset extension
ExamplePaths ==
  { <<"/", "a", "p", "p", "/", "l", "o", "g", "o", ".", "p", "n", "g">>,
    <<"/", "s", "t", "a", "t", "i", "c", "/", "c", "h", "u", "n", "k", ".", "a", "b", "c", "1", "2", "3", ".", "j", "s">>,
    <<"/", "a", "p", "i", "/", "u", "s", "e", "r", "s", "/", ":", "i", "d">>,
    <<"i", "n", "d", "e", "x", ".", "h", "t", "m", "l">>,
    <<"\\", ".">>,
    <<"/", "a", ".", "P", "N", "G">> }

FilterPaths ==
  {Join(ts, <<>>) : ts \in SeqsUpTo(PathTokens, MaxTokens)} \cup ExamplePaths

\* the relative path of the source being scanned
FilterSource == <<"d", "/", "a", ".", "j", "s">>

FilterIdle == fmatch = <<>> /\ fout = <<>> /\ fpc = "idle"

FilterInit == fmatch = <<>> /\ fout = <<>> /\ fpc = "scanning"

\* the matches a scan can yield: every rule with every path, and for the
\* 2-group rule a path group that did not take part in the match
Matches(paths) ==
  {Match(r, <<p>>, None) :
     r \in {q \in DOMAIN PatternCatalog : PatternCatalog[q].groups = 1}, p \in paths}
  \cup {Match(r, <<"n">>, g2) :
     r \in {q \in DOMAIN PatternCatalog : PatternCatalog[q].groups = 2},
     g2 \in {<<x>> : x \in paths} \cup {None}}

\* the path group holds what the rule's pattern can capture
MatchFits(m) ==
  LET rule == PatternCatalog[m.rule]
  IN  rule.groups = 1 => Captures(rule.shape, m.g1[1])

\* extract_with_patterns meets one match of one rule (lines 81-98)
HandleOneMatch ==
  /\ fpc = "scanning"
  /\ \E m \in Matches(FilterPaths) :
       /\ MatchFits(m)
       /\ fmatch' = m
       /\ fout' = HandleMatch(<<>>, FilterSource, m)
       /\ fpc' = IF fout'.raised THEN "raised" ELSE "handled"
  /\ OnlyFilter

---------------------------------------------------------------------------
(* Extractor: extract_routes.py, process_js_files *)

\* Bound on the number of files under the directory
MaxFiles == 3

\* What a scan of one file can yield, as the matches of the rules in catalog
\* order: nothing; a route; a root path the filter drops; a route and a named
\* route; a route and then a 2-group match whose path group is None; such a
\* match alone; empty paths; a named route and an absolute URL.
FileMatches ==
  { <<>>,
    << Match(1, << <<"/", "a", "p", "i">> >>, None) >>,
    << Match(1, << <<"/">> >>, None) >>,
    << Match(1, << <<"/", "a", "p", "i">> >>, None), Match(2, <<"n">>, << <<"/", "u">> >>) >>,
    << Match(1, << <<"/", "a", "p", "i">> >>, None), Match(2, <<"n">>, None) >>,
    << Match(2, <<"n">>, None) >>,
    << Match(1, << <<>> >>, None), Match(2, <<"n">>, << <<>> >>) >>,
    << Match(2, <<"n">>, << <<"/", "u">> >>),
       Match(8, << <<"h", "t", "t", "p", ":", "/", "/", "h">> >>, None) >> }

\* a file under the directory: whether open() and read() succeed, and the
\* matches of its content
JsFiles == [readable : BOOLEAN, matches : FileMatches]

\* os.path.relpath(js_file, directory) of the i-th file: the files of an
\* rglob are distinct, and a file in a sub-directory has the host's separator
RelPath(i) == <<"s", "\\", "f", CharOrder[Ord("0") + i]>>

\* os.path.relpath(file_path, base_dir).replace('\\', '/'): base_dir is the
\* parent of the directory, "d" is the directory's name
SourceFile(i) == ReplaceChar(<<"d", "\\">> \o RelPath(i), "\\", "/")

\* extract_with_patterns over the matches, in order; an exception ends it
RECURSIVE ScanMatches(_, _, _)
ScanMatches(routes, source_file, ms) ==
  IF ms = <<>> THEN [raised |-> FALSE, routes |-> routes]
  ELSE LET h == HandleMatch(routes, source_file, Head(ms))
       IN  IF h.raised THEN [raised |-> TRUE, routes |-> <<>>]
           ELSE ScanMatches(h.routes, source_file, Tail(ms))

\* extract_routes_from_js(js_file, base_dir): open() raises on a file that
\* cannot be read; otherwise the routes list, or the exception of the scan
extract_routes_from_js(file, source_file) ==
  IF ~file.readable THEN [raised |-> TRUE, routes |-> <<>>]
  ELSE ScanMatches(<<>>, source_file, file.matches)

\* the loop body without the try: the exception leaves process_js_files
AfterFile_no_catch(all, i, file) ==
  LET r == extract_routes_from_js(file, SourceFile(i))
  IN  IF r.raised THEN [all_routes |-> all, pc |-> "raised"]
      ELSE IF r.routes # <<>>
      THEN [all_routes |-> all @@ (RelPath(i) :> r.routes), pc |-> "looping"]
      ELSE [all_routes |-> all, pc |-> "looping"]

\* The loop body (lines 113-120) for the i-th file: all_routes and the
\* position after it. An exception is caught and printed.
AfterFile(all, i, file) ==
  LET r == extract_routes_from_js(file, SourceFile(i))
  IN  IF r.raised THEN [all_routes |-> all, pc |-> "looping"]
      ELSE IF r.routes # <<>>
      THEN [all_routes |-> all @@ (RelPath(i) :> r.routes), pc |-> "looping"]
      ELSE [all_routes |-> all, pc |-> "looping"]

ExtractIdle == efiles = <<>> /\ all_routes = <<>> /\ epc = "idle"

ExtractInit == efiles = <<>> /\ all_routes = <<>> /\ epc = "looping"

\* one iteration of `for js_file in js_files`
ProcessFile ==
  /\ epc = "looping"
  /\ Len(efiles) < MaxFiles
  /\ \E file \in JsFiles :
       LET after == AfterFile(all_routes, Len(efiles) + 1, file)
       IN  /\ efiles' = Append(efiles, file)
           /\ all_routes' = after.all_routes
           /\ epc' = after.pc
  /\ OnlyExtract

\* the files are exhausted: return all_routes
ReturnRoutes ==
  /\ epc = "looping"
  /\ epc' = "returned"
  /\ UNCHANGED <<efiles, all_routes>>
  /\ OnlyExtract

---------------------------------------------------------------------------
(* Analyzer: test_routes.py, analyze_results *)

\* a probe result: the dict test_route returns ('error' only on failure)
ProbeResult(url, status_code, content_length, error) ==
  [url |-> url, status_code |-> status_code, content_length |-> content_length,
   error |-> error]

\* the occurrence counts of a differential content length (line 51)
MinCount == 1
MaxCount == 5

\* the status code of the pages left out of non_404_pages (line 65)
NotFound == 404

\* length_count[length]
LengthCount(rs, length) ==
  Cardinality({i \in DOMAIN rs : rs[i].content_length = length})

\* a length is differential only below the upper count
unique_lengths_below_max(rs) ==
  {rs[i].content_length : i \in {j \in DOMAIN rs :
     LET count == LengthCount(rs, rs[j].content_length)
     IN  MinCount <= count /\ count < MaxCount}}

\* {length for length, count in length_count.items() if 1 <= count <= 5}
unique_lengths(rs) ==
  {rs[i].content_length : i \in {j \in DOMAIN rs :
     LET count == LengthCount(rs, rs[j].content_length)
     IN  MinCount <= count /\ count <= MaxCount}}

\* a sort by content_length that puts an element before the earlier elements
\* of the same key
RECURSIVE SortByLength_ties_reversed(_)
SortByLength_ties_reversed(rs) ==
  IF rs = <<>> THEN <<>>
  ELSE LET init   == SortByLength_ties_reversed(SubSeq(rs, 1, Len(rs) - 1))
           x      == rs[Len(rs)]
           before == SelectSeq(init, LAMBDA r : r.content_length < x.content_length)
           after  == SelectSeq(init, LAMBDA r : r.content_length >= x.content_length)
       IN  before \o <<x>> \o after

\* list.sort(key=content_length): a stable sort, here by insertion of each
\* element after the elements whose key is not greater
RECURSIVE SortByLength(_)
SortByLength(rs) ==
  IF rs = <<>> THEN <<>>
  ELSE LET init   == SortByLength(SubSeq(rs, 1, Len(rs) - 1))
           x      == rs[Len(rs)]
           before == SelectSeq(init, LAMBDA r : r.content_length <= x.content_length)
           after  == SelectSeq(init, LAMBDA r : r.content_length > x.content_length)
       IN  before \o <<x>> \o after

\* analyze_results(results), first value
UniquePages(rs) ==
  LET lengths == unique_lengths(rs)
  IN  SortByLength(SelectSeq(rs, LAMBDA r : r.content_length \in lengths))

\* analyze_results(results), second value: status code -> the results with
\* it, in the order of results
Non404Pages(rs) ==
  [code \in {rs[i].status_code : i \in DOMAIN rs} \ {NotFound} |->
     SelectSeq(rs, LAMBDA r : r.status_code = code)]

\* Bound on the number of results given to analyze_results
MaxResults == 9

\* the results fed to the analyzer: the i-th has the URL of the i-th path and
\* one of three responses
FedResults(i) ==
  { ProbeResult(<<"u", CharOrder[Ord("0") + i]>>, 200, 7, None),
    ProbeResult(<<"u", CharOrder[Ord("0") + i]>>, 500, 42, None),
    ProbeResult(<<"u", CharOrder[Ord("0") + i]>>, NotFound, 100, None) }

ProbeIdle ==
  /\ base_url = <<>>
  /\ all_paths = {}
  /\ task = <<>>
  /\ results = <<>>
  /\ mpc = "idle"
  /\ unique_pages = <<>>
  /\ non_404_pages = <<>>

AnalyzeInit ==
  /\ base_url = <<>>
  /\ all_paths = {}
  /\ task = <<>>
  /\ results = <<>>
  /\ mpc = "feeding"
  /\ unique_pages = <<>>
  /\ non_404_pages = <<>>

\* the caller's results list gets one more result
FeedResult ==
  /\ mpc = "feeding"
  /\ Len(results) < MaxResults
  /\ \E r \in FedResults(Len(results) + 1) : results' = Append(results, r)
  /\ UNCHANGED <<base_url, all_paths, task, mpc, unique_pages, non_404_pages>>
  /\ OnlyProbe

\* unique_pages, non_404_pages = analyze_results(results)
AnalyzeFed ==
  /\ mpc = "feeding"
  /\ unique_pages' = UniquePages(results)
  /\ non_404_pages' = Non404Pages(results)
  /\ mpc' = "done"
  /\ UNCHANGED <<base_url, all_paths, task, results>>
  /\ OnlyProbe

---------------------------------------------------------------------------
(* Prober: test_routes.py, test_route and main *)

\* the characters of a URL scheme after its first letter
IsSchemeChar(c) == IsAlnum(c) \/ c \in {"+", "-", "."}

\* urlsplit: the position of the ':' that ends a scheme, 0 when the string
\* has no scheme
SchemeEnd(u) ==
  LET colons == {i \in 1..Len(u) : u[i] = ":"}
  IN  IF colons = {} THEN 0
      ELSE LET i == CHOOSE c \in colons : \A d \in colons : c <= d
           IN  IF /\ i > 1
                  /\ IsAlnum(u[1]) /\ ~(Ord(u[1]) <= Ord("9"))
                  /\ \A k \in 1..(i - 1) : IsSchemeChar(u[k])
               THEN i
               ELSE 0

SchemeOf(u) == Lower(SubSeq(u, 1, SchemeEnd(u) - 1))

\* urlsplit: the network location, the text between a '//' that follows the
\* scheme and the next '/', '?' or '#'
NetlocOf(u) ==
  LET rest == SubSeq(u, SchemeEnd(u) + 1, Len(u))
  IN  IF ~StartsWith(rest, <<"/", "/">>) THEN <<>>
      ELSE LET body == SubSeq(rest, 3, Len(rest))
               ends == {i \in 1..Len(body) : body[i] \in {"/", "?", "#"}}
           IN  IF ends = {} THEN body
               ELSE SubSeq(body, 1, (CHOOSE e \in ends : \A f \in ends : e <= f) - 1)

HasNetloc(u) == StartsWith(SubSeq(u, SchemeEnd(u) + 1, Len(u)), <<"/", "/">>)

\* urlsplit raises ValueError("Invalid IPv6 URL") on a network location with
\* one bracket and not the other
SplitRaises(u) ==
  LET n == NetlocOf(u)
  IN  ("[" \in Range(n)) # ("]" \in Range(n))

\* the schemes urljoin resolves relative references for (those of the model)
uses_relative == { <<"h", "t", "t", "p">>, <<"h", "t", "t", "p", "s">>, <<"f", "t", "p">>,
                   <<"w", "s">>, <<"w", "s", "s">> }

\* urlsplit: what follows the scheme and the network location (the path;
\* the references of the model have no query, fragment or parameters)
PathOf(u) ==
  LET rest == SubSeq(u, SchemeEnd(u) + 1, Len(u))
  IN  IF HasNetloc(u) THEN SubSeq(rest, 3 + Len(NetlocOf(u)), Len(rest)) ELSE rest

\* segments[1:-1] = filter(None, segments[1:-1])
DropEmptyInside(segments) ==
  IF Len(segments) <= 2 THEN segments
  ELSE <<segments[1]>>
         \o SelectSeq(SubSeq(segments, 2, Len(segments) - 1), LAMBDA g : g # <<>>)
         \o <<segments[Len(segments)]>>

\* the loop over the segments: '..' pops the last resolved segment if there
\* is one, '.' is skipped, every other segment is appended
RECURSIVE ResolveSegments(_, _)
ResolveSegments(segments, resolved_path) ==
  IF segments = <<>> THEN resolved_path
  ELSE LET seg == Head(segments)
       IN  IF seg = <<".", ".">>
           THEN ResolveSegments(Tail(segments),
                                IF resolved_path = <<>> THEN <<>>
                                ELSE SubSeq(resolved_path, 1, Len(resolved_path) - 1))
           ELSE IF seg = <<".">> THEN ResolveSegments(Tail(segments), resolved_path)
           ELSE ResolveSegments(Tail(segments), Append(resolved_path, seg))

\* the path of the joined URL, from the path of the base and a non-empty
\* path of the reference
ResolvedPath(bpath, path) ==
  LET parts      == Split(bpath, <<"/">>)
      base_parts == IF parts[Len(parts)] # <<>> THEN SubSeq(parts, 1, Len(parts) - 1) ELSE parts
      segments   == IF Head(path) = "/" THEN Split(path, <<"/">>)
                    ELSE DropEmptyInside(base_parts \o Split(path, <<"/">>))
      resolved   == ResolveSegments(segments, <<>>)
      closed     == IF segments[Len(segments)] \in {<<".">>, <<".", ".">>}
                    THEN Append(resolved, <<>>) ELSE resolved
      joined     == Join(closed, <<"/">>)
  IN  IF joined = <<>> THEN <<"/">> ELSE joined

\* urlunparse of a scheme, a network location and a path
Unparse(scheme, netloc, path) ==
  scheme \o <<":", "/", "/">> \o netloc
    \o (IF path # <<>> /\ Head(path) # "/" THEN <<"/">> ELSE <<>>) \o path

\* urljoin(base, url) of urllib.parse, as test_route calls it: the exception,
\* or the joined URL. A reference of another scheme, or of a scheme that
\* takes no relative references, is returned as it is; one with a network
\* location of its own keeps that location; every other one is resolved
\* against the path of the base.
urljoin(base, url) ==
  IF base = <<>> THEN [raised |-> FALSE, url |-> url]
  ELSE IF url = <<>> THEN [raised |-> FALSE, url |-> base]
  ELSE IF SplitRaises(base) \/ SplitRaises(url) THEN [raised |-> TRUE, url |-> <<>>]
  ELSE LET bscheme == SchemeOf(base)
           scheme  == IF SchemeEnd(url) > 0 THEN SchemeOf(url) ELSE bscheme
           path    == PathOf(url)
       IN  IF scheme # bscheme \/ scheme \notin uses_relative
           THEN [raised |-> FALSE, url |-> url]
           ELSE IF NetlocOf(url) # <<>>
           THEN [raised |-> FALSE, url |-> Unparse(scheme, NetlocOf(url), path)]
           ELSE IF path = <<>>
           THEN [raised |-> FALSE, url |-> Unparse(scheme, NetlocOf(base), PathOf(base))]
           ELSE [raised |-> FALSE,
                 url |-> Unparse(scheme, NetlocOf(base), ResolvedPath(PathOf(base), path))]

\* int(s) of a header value: the number of a string of decimal digits, and
\* ValueError (<<>>) for the other strings of the model
RECURSIVE DigitsValue(_)
DigitsValue(ds) ==
  IF ds = <<>> THEN 0
  ELSE 10 * DigitsValue(SubSeq(ds, 1, Len(ds) - 1)) + (Ord(ds[Len(ds)]) - Ord("0"))

ParseInt(v) ==
  IF v # <<>> /\ \A i \in 1..Len(v) : Ord(v[i]) >= Ord("0") /\ Ord(v[i]) <= Ord("9")
  THEN <<DigitsValue(v)>>
  ELSE None

\* what requests.get gives: an exception (transport failure), or a response
\* with its status code, its Content-Length header if any, and its body size
TransportFailure == [failed |-> TRUE, status |-> 0, header |-> None, body |-> 0]
Response(status, header, body) ==
  [failed |-> FALSE, status |-> status, header |-> header, body |-> body]

GetOutcomes ==
  { TransportFailure,
    Response(200, None, 7),
    Response(200, << <<"4", "2">> >>, 7),
    Response(NotFound, << <<"1", "0", "0">> >>, 100),
    Response(200, << <<"4", "x">> >>, 7) }

\* The try block of test_route (lines 21-39) once requests.get has returned
\* or raised: int() of a header that is no number raises ValueError inside
\* the try, and the except clause returns the failure result.
test_route_result(url, got) ==
  IF got.failed THEN ProbeResult(url, 0, 0, <<"transport">>)
  ELSE LET length == IF got.header = None THEN <<got.body>> ELSE ParseInt(got.header[1])
       IN  IF length = None THEN ProbeResult(url, 0, 0, <<"ValueError">>)
           ELSE ProbeResult(url, got.status, length[1], None)

\* max_workers of the probing pool (line 92)
MaxWorkers == 10

\* Bound on the number of paths of the routes file
MaxPaths == 3

BaseUrls == { <<"h", "t", "t", "p", ":", "/", "/", "h">>,
              <<"h", "t", "t", "p", ":", "/", "/", "h", "/">>,
              <<"h", "t", "t", "p", ":", "/", "/", "h", "/", "/">> }

\* paths of a routes file: two routes, a relative one, one with two leading
\* separators, one with a parent segment, an absolute URL of another host,
\* and an absolute URL whose host part opens a bracket
ProbePaths == { <<"/", "a">>, <<"/", "b">>, <<"c">>,
                <<"/", "/", "a", "/", "b">>,
                <<"/", "a", "/", ".", ".", "/", "b">>,
                <<"h", "t", "t", "p", ":", "/", "/", "e", "/", "x">>,
                <<"h", "t", "t", "p", ":", "/", "/", "[", "x">> }

\* a future: queued, running (the URL is built, the request is out), done
\* with a result, failed with an exception, or collected by main
Future(st, url, got, result) == [st |-> st, url |-> url, got |-> got, result |-> result]

ProbeInit ==
  /\ base_url \in BaseUrls
  /\ all_paths \in {P \in SUBSET ProbePaths : Cardinality(P) <= MaxPaths}
  /\ task = [p \in all_paths |-> Future("queued", <<>>, None, None)]
  /\ results = <<>>
  /\ mpc = "collecting"
  /\ unique_pages = <<>>
  /\ non_404_pages = <<>>

Running == {p \in all_paths : task[p].st = "running"}

\* A worker takes a submitted call: test_route builds the URL (line 20,
\* outside the try) and issues the request; an exception of urljoin ends the
\* call and is kept in the future.
StartProbe ==
  /\ mpc \in {"collecting", "raised"}
  /\ Cardinality(Running) < MaxWorkers
  /\ \E p \in all_paths :
       /\ task[p].st = "queued"
       /\ LET j == urljoin(RStrip(base_url, "/") \o <<"/">>, LStrip(p, "/"))
          IN  task' = [task EXCEPT ![p] =
                         IF j.raised THEN Future("failed", <<>>, None, None)
                         ELSE Future("running", j.url, None, None)]
  /\ UNCHANGED <<base_url, all_paths, results, mpc, unique_pages, non_404_pages>>
  /\ OnlyProbe

\* requests.get returns or raises, and test_route returns its result
FinishProbe ==
  /\ mpc \in {"collecting", "raised"}
  /\ \E p \in all_paths : \E got \in GetOutcomes :
       /\ task[p].st = "running"
       /\ task' = [task EXCEPT ![p] =
                     Future("done", task[p].url, <<got>>, <<test_route_result(task[p].url, got)>>)]
  /\ UNCHANGED <<base_url, all_paths, results, mpc, unique_pages, non_404_pages>>
  /\ OnlyProbe

\* main takes the next completed future (lines 94-96): future.result()
\* returns the result, which is appended, or raises the call's exception,
\* which leaves the loop and main
Collect ==
  /\ mpc = "collecting"
  /\ \E p \in all_paths :
       \/ /\ task[p].st = "done"
          /\ results' = Append(results, task[p].result[1])
          /\ task' = [task EXCEPT ![p].st = "collected"]
          /\ mpc' = mpc
       \/ /\ task[p].st = "failed"
          /\ mpc' = "raised"
          /\ UNCHANGED <<results, task>>
  /\ UNCHANGED <<base_url, all_paths, unique_pages, non_404_pages>>
  /\ OnlyProbe

\* every future is collected: analyze_results(results) and the report
AnalyzeProbed ==
  /\ mpc = "collecting"
  /\ \A p \in all_paths : task[p].st = "collected"
  /\ unique_pages' = UniquePages(results)
  /\ non_404_pages' = Non404Pages(results)
  /\ mpc' = "done"
  /\ UNCHANGED <<base_url, all_paths, task, results>>
  /\ OnlyProbe

---------------------------------------------------------------------------
(* Worker pool: test_routes.py, main (lines 85-97), and the same lines of   *)
(* the test_routes tool of main.py. A path is a number here: the i-th       *)
(* distinct path string of the routes file. What a probe returns is left   *)
(* to the prober above.                                                    *)

\* Bound on the number of routes of the routes file
MaxRoutes == 13

\* a route of the routes file, with its 'path' key or without it
Route(path) == [path |-> path]

\* The routes file of n routes: the second route repeats the path of the
\* first, the third has no 'path' key, and every later route has a path of
\* its own.
RoutesFile(n) ==
  [i \in 1..n |->
     IF i = 3 THEN Route(None)
     ELSE IF i <= 2 THEN Route(<<1>>)
     ELSE Route(<<i - 2>>)]

RoutesFiles == {RoutesFile(n) : n \in 0..MaxRoutes}

PoolIdle ==
  /\ routes_data = <<>>
  /\ future_to_path = <<>>
  /\ work_queue = <<>>
  /\ ppc = "idle"

PoolInit ==
  /\ routes_data \in RoutesFiles
  /\ all_paths = {}
  /\ future_to_path = <<>>
  /\ work_queue = <<>>
  /\ ppc = "loading"
  /\ base_url = <<>>
  /\ task = <<>>
  /\ results = <<>>
  /\ mpc = "idle"
  /\ unique_pages = <<>>
  /\ non_404_pages = <<>>

\* lines 85-88: all_paths is a set, and a route without 'path' adds nothing
LoadPaths ==
  /\ ppc = "loading"
  /\ all_paths' = {routes_data[i].path[1] :
                     i \in {k \in DOMAIN routes_data : routes_data[k].path # None}}
  /\ ppc' = "submitting"
  /\ UNCHANGED <<routes_data, future_to_path, work_queue>>
  /\ OnlyPool

\* the paths of all_paths the comprehension of line 93 has not reached yet
Unsubmitted == all_paths \ {future_to_path[i].path : i \in DOMAIN future_to_path}

\* Line 93, one iteration of the comprehension over all_paths: submit puts
\* one work item for the path in the pool's queue and returns its future.
\* The set is gone through in one order (here the order of the numbers);
\* after its last element main enters the as_completed loop.
Submit ==
  /\ ppc = "submitting"
  /\ IF Unsubmitted = {}
     THEN /\ ppc' = "collecting"
          /\ UNCHANGED <<future_to_path, work_queue>>
     ELSE LET path == CHOOSE p \in Unsubmitted : \A q \in Unsubmitted : p <= q
          IN  /\ future_to_path' = Append(future_to_path, [path |-> path, st |-> "pending"])
              /\ work_queue' = Append(work_queue, Len(future_to_path) + 1)
              /\ ppc' = ppc
  /\ UNCHANGED <<routes_data, all_paths>>
  /\ OnlyPool

\* the futures whose test_route call a worker thread is executing
InFlight == {i \in DOMAIN future_to_path : future_to_path[i].st = "running"}

\* a pool that starts a thread for every work item
IdleWorker_unbounded == TRUE

\* a worker thread can take a work item: submit starts a thread only while
\* the pool has fewer than max_workers threads, and a thread executes one
\* work item at a time
IdleWorker == Cardinality(InFlight) < MaxWorkers

\* a worker thread takes the oldest work item of the queue and calls
\* test_route
WorkerStart ==
  /\ ppc \in {"submitting", "collecting"}
  /\ work_queue # <<>>
  /\ IdleWorker
  /\ future_to_path' = [future_to_path EXCEPT ![Head(work_queue)].st = "running"]
  /\ work_queue' = Tail(work_queue)
  /\ UNCHANGED <<routes_data, all_paths, ppc>>
  /\ OnlyPool

\* test_route returns (or raises) and the future is finished
WorkerFinish ==
  /\ ppc \in {"submitting", "collecting"}
  /\ \E i \in InFlight :
       future_to_path' = [future_to_path EXCEPT ![i].st = "finished"]
  /\ UNCHANGED <<routes_data, all_paths, work_queue, ppc>>
  /\ OnlyPool

\* lines 94-97: as_completed yields a finished future and main takes its
\* result; after the last future the with blocks are left
CollectFuture ==
  /\ ppc = "collecting"
  /\ IF \A i \in DOMAIN future_to_path : future_to_path[i].st = "collected"
     THEN /\ ppc' = "done"
          /\ UNCHANGED future_to_path
     ELSE /\ \E i \in DOMAIN future_to_path :
               /\ future_to_path[i].st = "finished"
               /\ future_to_path' = [future_to_path EXCEPT ![i].st = "collected"]
          /\ ppc' = ppc
  /\ UNCHANGED <<routes_data, all_paths, work_queue>>
  /\ OnlyPool

---------------------------------------------------------------------------
(* Downloader: getjs.py, get_js_files. A script URL is given by its path.  *)

\* Bounds on the parameters max_depth and retry
MaxDepth == 2
MaxRetry == 2

\* max_workers of the pool of get_js_files (line 145) and of the pool each
\* download_single_js makes for the scripts it found (line 118)
OuterWorkers == 20
InnerWorkers == 5

\* three scripts, and a URL whose path does not end in '.js'
UrlA == <<"a", ".", "j", "s">>
UrlB == <<"b", ".", "j", "s">>
UrlC == <<"c", ".", "J", "S">>
UrlP == <<"p">>

\* the scripts a page refers to
PageScripts == { {UrlA}, {UrlA, UrlB}, {UrlA, UrlP} }

\* what extract_js_urls_from_content finds in the text of each script: a
\* chain, a cycle, two scripts that share a third, and a script that refers
\* to itself and to the others
ScriptTexts ==
  { (UrlA :> {UrlB} @@ UrlB :> {UrlC} @@ UrlC :> {} @@ UrlP :> {}),
    (UrlA :> {UrlB} @@ UrlB :> {UrlA} @@ UrlC :> {} @@ UrlP :> {}),
    (UrlA :> {UrlC} @@ UrlB :> {UrlC} @@ UrlC :> {UrlP} @@ UrlP :> {}),
    (UrlA :> {UrlA, UrlB} @@ UrlB :> {} @@ UrlC :> {} @@ UrlP :> {}) }

\* A call of download_js_recursive(url, current_depth): the call that
\* submitted it (0 for download_worker), where it is, whether it put its URL
\* in downloaded_urls, the attempt of the retry loop, the URLs the
\* comprehension of lines 119-120 has still to go through, the number of
\* calls there were when that comprehension began (the calls it submits
\* come after them), and what the call returned.
Call(url, depth, parent) ==
  [url |-> url, depth |-> depth, parent |-> parent, st |-> "submitted",
   claimed |-> FALSE, attempt |-> 0, todo |-> {}, since |-> 0, ret |-> None]

GetIdle ==
  /\ js_urls = {}
  /\ content = <<>>
  /\ max_depth = 0
  /\ retry = 0
  /\ downloaded_urls = {}
  /\ url_lock = 0
  /\ calls = <<>>
  /\ all_downloaded = <<>>
  /\ gpc = "idle"

GetInit ==
  /\ js_urls \in PageScripts
  /\ content \in ScriptTexts
  /\ max_depth \in 1..MaxDepth
  /\ retry \in 1..MaxRetry
  /\ downloaded_urls = {}
  /\ url_lock = 0
  /\ calls = <<>>
  /\ all_downloaded = <<>>
  /\ gpc = "fetching"

\* Lines 73-87 and 144-146: the page is fetched; a failed request returns
\* the empty list, else one download_worker is submitted per script of the
\* page.
FetchPage ==
  /\ gpc = "fetching"
  /\ \E ok \in BOOLEAN :
       IF ok
       THEN /\ calls' = LET urls == SortedStrs(js_urls)
                        IN  [i \in 1..Len(urls) |-> Call(urls[i], 1, 0)]
            /\ gpc' = "waiting"
       ELSE /\ calls' = calls
            /\ gpc' = "done"
  /\ UNCHANGED <<js_urls, content, max_depth, retry, downloaded_urls, url_lock, all_downloaded>>
  /\ OnlyGet

\* the futures of line 119: the calls the current attempt of call c
\* submitted to its inner pool
Children(c) == {k \in DOMAIN calls : calls[k].parent = c /\ k > calls[c].since}

\* the calls submitted by a call (0: by get_js_files) that a worker thread
\* is executing
Executing(pool) ==
  {k \in DOMAIN calls :
     calls[k].parent = pool /\ calls[k].st \notin {"submitted", "returned", "raised", "done"}}

\* a thread of the pool the call was submitted to can take it
WorkerFor(c) ==
  Cardinality(Executing(calls[c].parent)) <
    (IF calls[c].parent = 0 THEN OuterWorkers ELSE InnerWorkers)

\* a lock that does not exclude
LockIsFree_always == TRUE

\* threading.Lock: it can be acquired when no thread holds it
LockIsFree == url_lock = 0

\* line 61, with url_lock: a worker thread starts the call and enters the
\* block
AcquireLock ==
  /\ gpc = "waiting"
  /\ \E c \in DOMAIN calls :
       /\ calls[c].st = "submitted"
       /\ WorkerFor(c)
       /\ LockIsFree
       /\ url_lock' = c
       /\ calls' = [calls EXCEPT ![c].st = "locked"]
  /\ UNCHANGED <<js_urls, content, max_depth, retry, downloaded_urls, all_downloaded, gpc>>
  /\ OnlyGet

\* lines 62-63: too deep, or the URL is taken: the block is left and None is
\* returned
CheckClaim ==
  /\ gpc = "waiting"
  /\ \E c \in DOMAIN calls :
       /\ calls[c].st = "locked"
       /\ IF calls[c].depth > max_depth \/ calls[c].url \in downloaded_urls
          THEN /\ calls' = [calls EXCEPT ![c].st = "returned"]
               /\ url_lock' = 0
          ELSE /\ calls' = [calls EXCEPT ![c].st = "adding"]
               /\ url_lock' = url_lock
  /\ UNCHANGED <<js_urls, content, max_depth, retry, downloaded_urls, all_downloaded, gpc>>
  /\ OnlyGet

\* line 64: the URL is put in downloaded_urls and the block is left
AddClaim ==
  /\ gpc = "waiting"
  /\ \E c \in DOMAIN calls :
       /\ calls[c].st = "adding"
       /\ downloaded_urls' = downloaded_urls \cup {calls[c].url}
       /\ calls' = [calls EXCEPT ![c].st = "claimed", ![c].claimed = TRUE]
       /\ url_lock' = 0
  /\ UNCHANGED <<js_urls, content, max_depth, retry, all_downloaded, gpc>>
  /\ OnlyGet

\* what the except clause of lines 125-132 does to a call: the next
\* attempt, or None after the last one
AfterException(call) ==
  IF call.attempt < retry - 1
  THEN [call EXCEPT !.st = "claimed", !.attempt = @ + 1]
  ELSE [call EXCEPT !.st = "returned"]

\* Lines 65 and 89-132, download_single_js up to the scripts it found: a path
\* that does not end in '.js' returns None; os.makedirs (line 97, before the
\* try) may raise, and the exception leaves the call; a failed attempt is
\* retried until the attempts are used up, and then None is returned; a
\* successful one writes the file and goes on with the URLs found in it, or
\* returns the file's path when there are none.
Download ==
  /\ gpc = "waiting"
  /\ \E c \in DOMAIN calls : \E outcome \in {"ok", "failed", "makedirs raised"} :
       /\ calls[c].st = "claimed"
       /\ outcome = "makedirs raised" => calls[c].attempt = 0
       /\ calls' =
            IF ~EndsWith(Lower(calls[c].url), <<".", "j", "s">>)
            THEN [calls EXCEPT ![c].st = "returned"]
            ELSE IF outcome = "makedirs raised"
            THEN [calls EXCEPT ![c].st = "raised"]
            ELSE IF outcome = "failed"
            THEN [calls EXCEPT ![c] = AfterException(calls[c])]
            ELSE IF content[calls[c].url] = {}
            THEN [calls EXCEPT ![c].st = "returned", ![c].ret = <<calls[c].url>>]
            ELSE [calls EXCEPT ![c].st = "spawning", ![c].todo = content[calls[c].url],
                               ![c].since = Len(calls)]
  /\ UNCHANGED <<js_urls, content, max_depth, retry, downloaded_urls, url_lock, all_downloaded, gpc>>
  /\ OnlyGet

\* Lines 118-120, one element of the comprehension: a URL that is not in
\* downloaded_urls (read without the lock) is submitted to the inner pool
\* with depth + 1; after the last element the futures are waited for.
SubmitChild ==
  /\ gpc = "waiting"
  /\ \E c \in DOMAIN calls : \E new_url \in calls[c].todo :
       /\ calls[c].st = "spawning"
       /\ LET rest == calls[c].todo \ {new_url}
              mine == [calls EXCEPT ![c].todo = rest,
                                    ![c].st = IF rest = {} THEN "waiting" ELSE "spawning"]
          IN  calls' = IF new_url \notin downloaded_urls
                       THEN Append(mine, Call(new_url, calls[c].depth + 1, c))
                       ELSE mine
  /\ UNCHANGED <<js_urls, content, max_depth, retry, downloaded_urls, url_lock, all_downloaded, gpc>>
  /\ OnlyGet

\* Lines 121-124: every future of the inner pool is done and the pool is
\* shut down. The file's path is returned, unless future.result() raised
\* the exception of a call, which the except clause takes as a failed
\* attempt.
JoinChildren ==
  /\ gpc = "waiting"
  /\ \E c \in DOMAIN calls :
       /\ calls[c].st = "waiting"
       /\ \A k \in Children(c) : calls[k].st \in {"returned", "raised"}
       /\ calls' =
            IF \E k \in Children(c) : calls[k].st = "raised"
            THEN [calls EXCEPT ![c] = AfterException(calls[c])]
            ELSE [calls EXCEPT ![c].st = "returned", ![c].ret = <<calls[c].url>>]
  /\ UNCHANGED <<js_urls, content, max_depth, retry, downloaded_urls, url_lock, all_downloaded, gpc>>
  /\ OnlyGet

\* lines 139-142, download_worker: a file that was downloaded is appended
\* to all_downloaded, and the worker's future is done
WorkerDone ==
  /\ gpc = "waiting"
  /\ \E c \in DOMAIN calls :
       /\ calls[c].parent = 0
       /\ calls[c].st = "returned"
       /\ calls' = [calls EXCEPT ![c].st = "done"]
       /\ all_downloaded' = IF calls[c].ret # None
                            THEN Append(all_downloaded, calls[c].ret[1])
                            ELSE all_downloaded
  /\ UNCHANGED <<js_urls, content, max_depth, retry, downloaded_urls, url_lock, gpc>>
  /\ OnlyGet

\* lines 147-151: every worker's future is done; all_downloaded is
\* returned, unless future.result() raised the exception of a worker, which
\* leaves get_js_files once the pool is shut down
ReturnDownloaded ==
  /\ gpc = "waiting"
  /\ \A c \in DOMAIN calls : calls[c].parent = 0 => calls[c].st \in {"done", "raised"}
  /\ gpc' = IF \E c \in DOMAIN calls : calls[c].parent = 0 /\ calls[c].st = "raised"
            THEN "raised" ELSE "done"
  /\ UNCHANGED <<js_urls, content, max_depth, retry, downloaded_urls, url_lock, calls, all_downloaded>>
  /\ OnlyGet

---------------------------------------------------------------------------
(* Specifications: one per part of the pipeline; the parts a specification *)
(* does not run stay idle.                                                 *)

InitNorm == NormInit /\ CanonIdle /\ FilterIdle /\ ExtractIdle /\ ProbeIdle /\ PoolIdle /\ GetIdle
NextNorm == NormalizeOnce \/ NormalizeAgain
SpecNorm == InitNorm /\ [][NextNorm]_vars

InitCanon == CanonInit /\ NormIdle /\ FilterIdle /\ ExtractIdle /\ ProbeIdle /\ PoolIdle /\ GetIdle
NextCanon == Merge \/ Save
SpecCanon == InitCanon /\ [][NextCanon]_vars

InitFilter == FilterInit /\ NormIdle /\ CanonIdle /\ ExtractIdle /\ ProbeIdle /\ PoolIdle /\ GetIdle
NextFilter == HandleOneMatch
SpecFilter == InitFilter /\ [][NextFilter]_vars

InitExtract == ExtractInit /\ NormIdle /\ CanonIdle /\ FilterIdle /\ ProbeIdle /\ PoolIdle /\ GetIdle
NextExtract == ProcessFile \/ ReturnRoutes
SpecExtract == InitExtract /\ [][NextExtract]_vars

InitAnalyze == AnalyzeInit /\ NormIdle /\ CanonIdle /\ FilterIdle /\ ExtractIdle /\ PoolIdle /\ GetIdle
NextAnalyze == FeedResult \/ AnalyzeFed
SpecAnalyze == InitAnalyze /\ [][NextAnalyze]_vars

InitProbe == ProbeInit /\ NormIdle /\ CanonIdle /\ FilterIdle /\ ExtractIdle /\ PoolIdle /\ GetIdle
NextProbe == StartProbe \/ FinishProbe \/ Collect \/ AnalyzeProbed
SpecProbe == InitProbe /\ [][NextProbe]_vars

InitPool == PoolInit /\ NormIdle /\ CanonIdle /\ FilterIdle /\ ExtractIdle /\ GetIdle
NextPool == LoadPaths \/ Submit \/ WorkerStart \/ WorkerFinish \/ CollectFuture
SpecPool == InitPool /\ [][NextPool]_vars

\* the downloader; some thread that can take a step does take one (the
\* threads are scheduled, a request ends by its answer or its timeout)
InitGet == GetInit /\ NormIdle /\ CanonIdle /\ FilterIdle /\ ExtractIdle /\ ProbeIdle /\ PoolIdle
NextGet ==
  \/ FetchPage \/ AcquireLock \/ CheckClaim \/ AddClaim \/ Download
  \/ SubmitChild \/ JoinChildren \/ WorkerDone \/ ReturnDownloaded
SpecGet == InitGet /\ [][NextGet]_vars
SpecGetFair == SpecGet /\ WF_vars(NextGet)

---------------------------------------------------------------------------
(* Canonicalizer: properties *)

\* A path in normalized form: no two consecutive separators, and no trailing
\* separator unless the path is the root separator itself
IsNormalized(p) ==
  /\ \A i \in 1..(Len(p) - 1) : ~(p[i] = "/" /\ p[i + 1] = "/")
  /\ (p # <<>> /\ p[Len(p)] = "/") => p = <<"/">>

\* the candidates passed in so far whose path normalizes to p, in merge order
Contributing(p) == SelectSeq(fed, LAMBDA c : normalize_path(c.path) = p)

\* the record unique_routes holds for p
RecordOf(p) == cands[unique_routes[p]]

HasName(c) == c.name # NoName /\ c.name # <<"">>

\* C1: after any sequence of candidates, the inventory holds exactly one
\* record per distinct normalized path: every record's path is its key and is
\* in normalized form, no two records share a path, the keys are exactly the
\* normalized paths of the candidates, and the dumped list holds each record
\* once.
C1_OneRecordPerNormalizedPath ==
  /\ DOMAIN unique_routes = {normalize_path(c.path) : c \in Range(fed)}
  /\ \A p \in DOMAIN unique_routes : RecordOf(p).path = p /\ IsNormalized(p)
  /\ \A p, q \in DOMAIN unique_routes : p # q => unique_routes[p] # unique_routes[q]
  /\ cpc = "saved" =>
       /\ Len(final_routes) = Cardinality(DOMAIN unique_routes)
       /\ {final_routes[i].path : i \in DOMAIN final_routes} = DOMAIN unique_routes
       /\ \A i, j \in DOMAIN final_routes :
            final_routes[i].path = final_routes[j].path => i = j

\* '/a//b/' and '/a/b' were merged and the dumped inventory is one record, '/a/b'
C1_Witness ==
  /\ cpc = "saved"
  /\ {c.path : c \in Range(fed)} = { <<"/", "a", "/", "/", "b", "/">>, <<"/", "a", "/", "b">> }
  /\ Len(final_routes) = 1
  /\ final_routes[1].path = <<"/", "a", "/", "b">>

\* C2: the source_file of a merged record is the ', '-joined sorted list of
\* exactly the sourceRefs of the candidates that normalize to its path (a
\* function of the set of sourceRefs, hence the same for every merge order).
C2_SourcesAreUnionOfSourceRefs ==
  \A p \in DOMAIN unique_routes :
    RecordOf(p).source_file =
      Join(SortedStrs({c.source_file : c \in Range(Contributing(p))}), <<",", " ">>)

\* C3: a record's name is the name of the first contributing candidate that
\* has one (a name is a non-empty string, as the merge tests it); until such a
\* candidate is merged the record has no name, and a name once adopted is never
\* cleared or replaced by a later merge, so one named candidate among unnamed
\* ones names the record in every merge order.
C3_FirstNameWins ==
  \A p \in DOMAIN unique_routes :
    LET named == SelectSeq(Contributing(p), HasName)
    IN  IF named # <<>>
        THEN RecordOf(p).name = named[1].name
        ELSE ~HasName(RecordOf(p))

\* an unnamed candidate, then one named "X", then one named "Y" for the same
\* path: the record is named "X"
C3_Witness ==
  /\ Len(fed) = 3
  /\ \A i \in 1..3 : normalize_path(fed[i].path) = <<"/", "a", "/", "b">>
  /\ fed[1].name = NoName /\ fed[2].name = <<"X">> /\ fed[3].name = <<"Y">>
  /\ RecordOf(<<"/", "a", "/", "b">>).name = <<"X">>

\* C8: normalizing a path that normalize_path returned gives it back
\* unchanged, for every path, separator-only paths and paths with several
\* trailing separators included.
C8_NormalizeIdempotent == ncalls = 2 => ntwice = nonce

\* '///' is normalized to '/' and stays '/'
C8_Witness ==
  /\ ncalls = 2
  /\ norig = <<"/", "/", "/">>
  /\ nonce = <<"/">>
  /\ ntwice = <<"/">>

---------------------------------------------------------------------------
(* Extractor: properties *)

\* the path of the match that was handled
HandledPath ==
  IF PatternCatalog[fmatch.rule].groups > 1 THEN fmatch.g2[1] ELSE fmatch.g1[1]

\* C6: no candidate the Extractor emits has a path that begins with a
\* network scheme (http://, https://, ws://, wss://), whichever rule matched.
C6_NoSchemePathEmitted ==
  fpc = "handled" =>
    \A i \in DOMAIN fout.routes : ~StartsWithScheme(fout.routes[i].path)

\* The paths the filter is to reject: empty, a root value, separators and
\* dots only, a denylisted asset extension at the end, or a final segment
\* (one or more characters other than '/', at the start of the path or after
\* a '/') followed by an extension of 2 to 6 alphanumerics that ends the path
\* or is followed by a query string
ShouldReject(path) ==
  \/ path = <<>>
  \/ path \in { <<"/">>, <<"/", "/">>, <<".">>, <<".", "/">> }
  \/ \A i \in 1..Len(path) : path[i] \in {".", "/", "\\"}
  \/ \E ext \in static_extensions : EndsWith(Lower(path), ext)
  \/ \E d \in 2..Len(path) : path[d - 1] # "/" /\ ExtensionAt(path, d)

\* C7: the filter rejects exactly the paths of ShouldReject and accepts every
\* other path, and no path of ShouldReject is emitted as a candidate.
C7_FilterRejectsExactly ==
  fpc = "handled" =>
    /\ fout.called => (fout.valid <=> ~ShouldReject(HandledPath))
    /\ \A i \in DOMAIN fout.routes : ~ShouldReject(fout.routes[i].path)

\* a source fails when it cannot be read or when a rule yields no path where
\* the filter is called without a guard
SourceFails(file) ==
  \/ ~file.readable
  \/ \E k \in DOMAIN file.matches :
       PatternCatalog[file.matches[k].rule].groups > 1 /\ file.matches[k].g2 = None

\* what the i-th source contributes: nothing when it fails
Contribution(i) ==
  IF SourceFails(efiles[i]) THEN <<>>
  ELSE ScanMatches(<<>>, SourceFile(i), efiles[i].matches).routes

\* C10: a source that fails to be read or scanned never aborts the run and
\* contributes nothing; the mapping holds exactly the contributions of the
\* sources that yielded routes, wherever the failing source stands.
C10_FailureIsolated ==
  /\ epc \in {"looping", "returned"}
  /\ DOMAIN all_routes = {RelPath(i) : i \in {j \in DOMAIN efiles : Contribution(j) # <<>>}}
  /\ \A i \in DOMAIN efiles :
       Contribution(i) # <<>> => all_routes[RelPath(i)] = Contribution(i)

\* a source that raises in the filter after a route was found stands between
\* two sources that yield routes: the mapping returned holds those two
C10_Witness ==
  /\ epc = "returned"
  /\ Len(efiles) = 3
  /\ ~SourceFails(efiles[1]) /\ ~SourceFails(efiles[3])
  /\ efiles[2].readable /\ Len(efiles[2].matches) = 2 /\ SourceFails(efiles[2])
  /\ DOMAIN all_routes = {RelPath(1), RelPath(3)}

---------------------------------------------------------------------------
(* Analyzer: properties *)

\* the number of results that share the content length of the i-th
Sharing(i) ==
  Cardinality({j \in DOMAIN results : results[j].content_length = results[i].content_length})

---------------------------------------------------------------------------
(* Prober: properties *)

\* C4: a probe run over N distinct paths ends with exactly N results, one
\* per path; a probe that fails contributes a result with status_code 0, and
\* no exception leaves test_route or the collecting loop.
C4_ProbeTotality ==
  /\ mpc # "raised"
  /\ \A p \in all_paths : task[p].st # "failed"
  /\ \A p \in all_paths :
       (task[p].got # None /\ task[p].got[1].failed) => task[p].result[1].status_code = 0
  /\ mpc = "done" =>
       /\ Len(results) = Cardinality(all_paths)
       /\ \A p \in all_paths :
            Cardinality({i \in DOMAIN results : results[i] = task[p].result[1]}) = 1

\* C9: when the GET returns a response, the result carries the response's
\* status code, and as content_length the number of the Content-Length
\* header when there is one, else the body size; a result with status_code 0
\* and an error comes only from a transport failure.
C9_ResponseRecorded ==
  \A p \in all_paths :
    task[p].result # None =>
      LET got == task[p].got[1]
          r   == task[p].result[1]
      IN  /\ ~got.failed =>
               /\ r.status_code = got.status
               /\ got.header = None => r.content_length = got.body
               /\ (got.header # None /\ ParseInt(got.header[1]) # None) =>
                    r.content_length = ParseInt(got.header[1])[1]
          /\ (r.status_code = 0 /\ r.error # None) => got.failed

---------------------------------------------------------------------------
(* Worker pool: properties *)

\* the distinct paths of the routes of the routes file
DistinctPaths ==
  {routes_data[i].path[1] : i \in {k \in DOMAIN routes_data : routes_data[k].path # None}}

\* C11: no two submitted probe tasks have the same path, every task is for a
\* path of the routes file, once submission is over every distinct path of
\* the file has its task, and at every moment at most 10 probes are in
\* flight.
C11_OneTaskPerPathAtMostTenInFlight ==
  /\ \A i, j \in DOMAIN future_to_path :
       future_to_path[i].path = future_to_path[j].path => i = j
  /\ {future_to_path[i].path : i \in DOMAIN future_to_path} \subseteq DistinctPaths
  /\ ppc \in {"collecting", "done"} =>
       {future_to_path[i].path : i \in DOMAIN future_to_path} = DistinctPaths
  /\ Cardinality(InFlight) <= 10

\* a file with a repeated path and more than 10 distinct ones: 10 probes are
\* in flight and another task waits in the queue
C11_Witness ==
  /\ ppc = "collecting"
  /\ \E i, j \in DOMAIN routes_data :
       i # j /\ routes_data[i].path # None /\ routes_data[i].path = routes_data[j].path
  /\ Cardinality(InFlight) = 10
  /\ work_queue # <<>>

---------------------------------------------------------------------------
(* Canonicalizer: what the merge does to its input *)

\* C12: save_routes_to_file leaves every candidate it was given as it was:
\* the path, name, source_file and type of each candidate dict of `routes`
\* are after the merge what they were when process_js_files returned them.
C12_CandidatesUnchanged ==
  /\ Len(cands) = Len(fed)
  /\ \A i \in DOMAIN cands :
       /\ cands[i].path = fed[i].path
       /\ cands[i].name = fed[i].name
       /\ cands[i].source_file = fed[i].source_file
       /\ cands[i].type = fed[i].type

---------------------------------------------------------------------------
(* Prober: the probed URL *)

\* the base origin without its trailing separators, and one separator
OriginSlash == RStrip(base_url, "/") \o <<"/">>

\* C13: the URL a probe requests is the base origin, exactly one '/', and
\* the path without its leading separators, whatever the number of trailing
\* '/' of the origin and of leading '/' of the path; so it stays on the base
\* origin.
C13_ProbedUrlIsOriginSlashPath ==
  \A p \in all_paths :
    task[p].st \in {"running", "done", "collected"} =>
      /\ task[p].url = OriginSlash \o LStrip(p, "/")
      /\ StartsWith(task[p].url, OriginSlash)

---------------------------------------------------------------------------
(* Analyzer: the order of uniquePages *)

\* the position in results of a result (the results of a run differ by URL)
EncounterIndex(r) == CHOOSE i \in DOMAIN results : results[i] = r

\* C14: uniquePages is sorted ascending by content_length, and results of
\* equal content_length are in the order they have in the input results.
C14_SortedAscendingStable ==
  mpc = "done" =>
    \A k, l \in DOMAIN unique_pages :
      k < l =>
        /\ unique_pages[k].content_length <= unique_pages[l].content_length
        /\ unique_pages[k].content_length = unique_pages[l].content_length =>
             EncounterIndex(unique_pages[k]) < EncounterIndex(unique_pages[l])

\* lengths 100, 42, 7, 42 in this order: the result of length 7 comes first,
\* the two of length 42 keep their order, the one of length 100 is last
C14_Witness ==
  /\ mpc = "done"
  /\ Len(results) = 4
  /\ results[1].content_length = 100 /\ results[2].content_length = 42
  /\ results[3].content_length = 7 /\ results[4].content_length = 42
  /\ unique_pages = <<results[3], results[2], results[4], results[1]>>

---------------------------------------------------------------------------
(* Downloader: properties *)

\* the calls that went on to download_single_js
Claimed == {c \in DOMAIN calls : calls[c].claimed}

\* no URL is claimed by two calls, and no claimed call is deeper than
\* max_depth
ClaimedOnceWithinDepth ==
  /\ \A c, d \in Claimed : calls[c].url = calls[d].url => c = d
  /\ \A c \in Claimed : calls[c].depth <= max_depth

\* C15: under every interleaving of the outer workers and the inner pools,
\* download_single_js runs at most once per URL and never deeper than
\* max_depth, and get_js_files comes to its end (it returns, or raises the
\* exception of a worker).
C15_ClaimedOnceAndTerminates ==
  /\ []ClaimedOnceWithinDepth
  /\ <>(gpc \in {"done", "raised"})

\* the download is over; one URL was submitted twice and downloaded once,
\* and a call was turned away for its depth
C15_Witness ==
  /\ gpc = "done"
  /\ \E c, d \in DOMAIN calls :
       /\ c # d /\ calls[c].url = calls[d].url
       /\ calls[c].claimed /\ ~calls[d].claimed /\ calls[d].depth <= max_depth
  /\ \E c \in DOMAIN calls : calls[c].depth > max_depth

====
